---- MODULE Spec2Model ----
(***************************************************************************)
(* A model of libserver's src/lib.rs: body collection (Body::collect_bytes *)
(* and Body::collect_str) and the homogenized route callable built by      *)
(* HomogeneousRouteIntermediate::as_route_fn, driven by a dispatch chain.  *)
(***************************************************************************)
EXTENDS Integers, Sequences, FiniteSets, TLC

\* ------------------------------------------------------------------ bounds
\* Longest body stream, in data frames.
MaxChunks == 2
\* Longest data frame, in bytes.
MaxChunkLen == 2
\* Largest max_size handed to collect_bytes / collect_str.
MaxSize == 3
\* Longest dispatch chain, in routes.
NRoutes == 2

\* The byte values the body streams are built from: 'A' (one-byte scalar),
\* 0xC3 (lead byte of a two-byte scalar) and 0xA9 (continuation byte).
Bytes == {65, 195, 169}

\* Option<usize>: None is the empty sequence, Some(m) the sequence <<m>>.
NoneV == <<>>
SomeV(m) == <<m>>

\* ------------------------------------------------------------------ state
VARIABLES
    frames,         \* Body.inner: data frames the transport has yet to deliver
    endsWithFault,  \* whether the transport fails once the frames are delivered
    arrived,        \* the data frames delivered so far, in arrival order
    buf,            \* the bytes `collect()` has buffered so far
    max_size,       \* the max_size argument
    bpc,            \* position of the collect_str future
    bytesRes,       \* result of collect_bytes
    strRes,         \* result of collect_str
    routes,         \* the chain: per HomogeneousRoute, the router and service its closure captured
    strong,         \* per route, the strong count of the Arc the closure captured as `this`
    orig,           \* per task, the request it dispatches
    chainReq,       \* per task, the request the dispatch chain holds between invocations
    idx,            \* per task, the route the chain is at
    tpc,            \* per task, its position in the chain and in the callable's future
    req,            \* the `req` each invocation of the callable owns
    pend,           \* per task, what the awaited Router::run future resolves to
    svcPend,        \* per task, what the awaited Service::call future resolves to
    inv,            \* per task, the invocation in flight: request handed in, router runs, service calls
    out,            \* per task, what the callable returned last
    hist            \* per task, the invocations completed so far, in order

bodyVars == <<frames, endsWithFault, arrived, buf, max_size, bpc, bytesRes, strRes>>
routeVars == <<routes, strong, orig, chainReq, idx, tpc, req, pend, svcPend, inv, out, hist>>
vars == <<bodyVars, routeVars>>

\* ------------------------------------------------------------ pure helpers
\* All sequences over S of length at most n.
SeqsUpTo(S, n) == UNION {[1..k -> S] : k \in 0..n}

Chunks == SeqsUpTo(Bytes, MaxChunkLen)
Streams == SeqsUpTo(Chunks, MaxChunks)

IsCont(b) == b >= 128 /\ b <= 191

Invalid == [ok |-> FALSE, cps |-> <<>>]

RECURSIVE Utf8Decode(_)
\* String::from_utf8's validation: the scalar values the bytes encode (ok),
\* or not ok when the bytes are not well-formed UTF-8.
Utf8Decode(bs) ==
    IF bs = <<>> THEN [ok |-> TRUE, cps |-> <<>>]
    ELSE LET b1 == bs[1]
             n == Len(bs)
             Rest(k) == Utf8Decode(SubSeq(bs, k + 1, n))
             Then(k, cp) == IF Rest(k).ok
                            THEN [ok |-> TRUE, cps |-> <<cp>> \o Rest(k).cps]
                            ELSE Invalid
         IN  IF b1 <= 127 THEN Then(1, b1)
             ELSE IF b1 >= 194 /\ b1 <= 223
                  THEN IF n >= 2 /\ IsCont(bs[2])
                       THEN Then(2, (b1 - 192) * 64 + (bs[2] - 128))
                       ELSE Invalid
             ELSE IF b1 >= 224 /\ b1 <= 239
                  THEN IF /\ n >= 3 /\ IsCont(bs[2]) /\ IsCont(bs[3])
                          /\ (b1 = 224 => bs[2] >= 160)
                          /\ (b1 = 237 => bs[2] <= 159)
                       THEN Then(3, (b1 - 224) * 4096 + (bs[2] - 128) * 64
                                    + (bs[3] - 128))
                       ELSE Invalid
             ELSE IF b1 >= 240 /\ b1 <= 244
                  THEN IF /\ n >= 4 /\ IsCont(bs[2]) /\ IsCont(bs[3])
                          /\ IsCont(bs[4])
                          /\ (b1 = 240 => bs[2] >= 144)
                          /\ (b1 = 244 => bs[2] <= 143)
                       THEN Then(4, (b1 - 240) * 262144 + (bs[2] - 128) * 4096
                                    + (bs[3] - 128) * 64 + (bs[4] - 128))
                       ELSE Invalid
             ELSE Invalid

ValidUtf8(bs) == Utf8Decode(bs).ok

\* Result values.
OkV(v) == [tag |-> "Ok", val |-> v]
ErrHyper == [tag |-> "Err", err |-> "Hyper"]
ErrEncoding == [tag |-> "Err", err |-> "Encoding"]
ErrRequestTooLarge(actual, limit) ==
    [tag |-> "Err", err |-> "RequestTooLarge", actual |-> actual, limit |-> limit]
Pending == [tag |-> "Pending"]

\* Mutant: the comparison rejects a body of exactly max bytes.
TooLargeAtLimit(len, max) == max # NoneV /\ len >= max[1]

\* The size comparison of collect_bytes: strictly greater than max fails.
TooLarge(len, max) == max # NoneV /\ len > max[1]

\* Mutant: an oversized body is cut to max bytes and returned.
SizeCheckTruncates(body, max) ==
    IF TooLarge(Len(body), max) THEN OkV(SubSeq(body, 1, max[1])) ELSE OkV(body)

\* collect_bytes after `collect().await?.to_bytes()` produced `body`.
SizeCheck(body, max) ==
    IF TooLarge(Len(body), max)
    THEN ErrRequestTooLarge(Len(body), max[1])
    ELSE OkV(body)

\* Mutant: a lossy conversion that drops what it cannot decode.
StrOfBytesLossy(r) ==
    IF r.tag = "Err" THEN r ELSE OkV(Utf8Decode(r.val).cps)

\* collect_str after collect_bytes returned r: `?` passes an error on,
\* String::from_utf8 decodes the bytes or fails with Encoding.
StrOfBytes(r) ==
    IF r.tag = "Err" THEN r
    ELSE IF ValidUtf8(r.val) THEN OkV(Utf8Decode(r.val).cps)
    ELSE ErrEncoding

\* ------------------------------------------------------------ body actions
BodyStart ==
    /\ frames \in Streams
    /\ endsWithFault \in BOOLEAN
    /\ arrived = <<>>
    /\ buf = <<>>
    /\ max_size \in {NoneV} \cup {SomeV(m) : m \in 0..MaxSize}
    /\ bpc = "collecting"
    /\ bytesRes = Pending
    /\ strRes = Pending

\* `collect()` is polled and the transport delivers the next data frame,
\* which is buffered whatever max_size is.
PollFrame ==
    /\ bpc = "collecting"
    /\ frames # <<>>
    /\ buf' = buf \o Head(frames)
    /\ arrived' = Append(arrived, Head(frames))
    /\ frames' = Tail(frames)
    /\ UNCHANGED <<endsWithFault, max_size, bpc, bytesRes, strRes>>
    /\ UNCHANGED routeVars

\* The transport fails: `?` returns Error::Hyper and the buffer is dropped.
PollFault ==
    /\ bpc = "collecting"
    /\ frames = <<>>
    /\ endsWithFault
    /\ bytesRes' = ErrHyper
    /\ buf' = <<>>
    /\ bpc' = "bytesDone"
    /\ UNCHANGED <<frames, endsWithFault, arrived, max_size, strRes>>
    /\ UNCHANGED routeVars

\* The stream ends: to_bytes, then the comparison against max_size.
PollEnd ==
    /\ bpc = "collecting"
    /\ frames = <<>>
    /\ ~endsWithFault
    /\ bytesRes' = SizeCheck(buf, max_size)
    /\ bpc' = "bytesDone"
    /\ UNCHANGED <<frames, endsWithFault, arrived, buf, max_size, strRes>>
    /\ UNCHANGED routeVars

\* collect_str's continuation once its inner collect_bytes has returned.
FromUtf8 ==
    /\ bpc = "bytesDone"
    /\ strRes' = StrOfBytes(bytesRes)
    /\ bpc' = "strDone"
    /\ UNCHANGED <<frames, endsWithFault, arrived, buf, max_size, bytesRes>>
    /\ UNCHANGED routeVars

\* ---------------------------------------------------------------- routing
\* The concurrent tasks, each dispatching one request through the chain.
Tasks == {"t1", "t2"}

\* Request.header.url_path as its segments; the body plays no part in routing.
Paths == {<<"api", "x">>, <<"other">>, <<"x", "api">>}
Request(p) == [url_path |-> p]
Requests == {Request(p) : p \in Paths}
\* What is left of a Request that was moved into Service::call.
MovedReq == [url_path |-> <<"(moved)">>]

\* Router implementations (plug-ins of the Router trait): `run` may change the
\* request in place and returns Option<Context>.
\*   never      no match, request untouched
\*   always     matches everything with the context <<"c">>
\*   prefix     matches a path starting with "api"; the context is the rest
\*   strip      consumes the first segment in place, matches if it was "api"
\*   stripnever consumes the first segment in place, never matches
RouterKinds == {"never", "always", "prefix", "strip", "stripnever"}
\* Service implementations: one answers, one fails.
ServiceKinds == {"ok", "err"}
RouteKinds == [router : RouterKinds, service : ServiceKinds]

Stripped(r) == IF r.url_path = <<>> THEN r ELSE Request(Tail(r.url_path))
StartsWithApi(r) == r.url_path # <<>> /\ Head(r.url_path) = "api"

\* Router::run(&self, &mut Request): the request as the router leaves it and
\* the Option<Context> its future resolves to.
RouterRun(k, r) ==
    CASE k = "never" -> [req |-> r, cx |-> NoneV]
      [] k = "always" -> [req |-> r, cx |-> SomeV(<<"c">>)]
      [] k = "prefix" -> [req |-> r,
                          cx |-> IF StartsWithApi(r) THEN SomeV(Tail(r.url_path))
                                 ELSE NoneV]
      [] k = "strip" -> [req |-> Stripped(r),
                         cx |-> IF StartsWithApi(r) THEN SomeV(<<"api">>)
                                ELSE NoneV]
      [] k = "stripnever" -> [req |-> Stripped(r), cx |-> NoneV]

\* Service::call(&self, Request, &Context): Result<Response, Error>.
ServiceCall(k, r, cx) ==
    IF k = "ok" THEN OkV([status |-> 200, path |-> r.url_path, cx |-> cx])
    ELSE ErrHyper

\* Mutant: the request is kept in one place shared by every invocation.
ReqSlotShared(t) == "t1"

\* `move |mut req: Request|`: every invocation owns the request handed to it.
ReqSlot(t) == t

\* Mutant: the future takes `this` without counting a new reference.
StrongAfterMove(n) == n

\* `this.clone()`: one more strong reference for the future being built.
StrongAfterClone(n) == n + 1
\* The future completes and drops its `this`.
StrongAfterDrop(n) == n - 1

\* What a call finds behind the closure's `this`: the captured router and
\* service while a strong reference keeps them alive, anything once freed.
Captured(i) == IF strong[i] > 0 THEN {routes[i]} ELSE RouteKinds

\* Mutant: the router is run on a copy and its changes are thrown away.
ReqAfterRunOnCopy(before, rr) == before

\* `run(&mut req)`: the closure goes on with the request the router worked on.
ReqAfterRun(before, rr) == rr.req

\* Mutant: a failed service is reported as a 500 response.
MatchedErrorAsResponse(res) ==
    [tag |-> "matched",
     res |-> IF res.tag = "Err" THEN OkV([status |-> 500, path |-> <<>>, cx |-> <<>>])
             ELSE res,
     req |-> MovedReq]
\* Mutant: a failed service falls through as if the router had not matched.
MatchedErrorFallsThrough(res) ==
    [tag |-> IF res.tag = "Err" THEN "unmatched" ELSE "matched",
     res |-> res, req |-> MovedReq]

\* `Some(cx) => Ok(this.service.call(req, &cx).await)`
MatchedOutcome(res) == [tag |-> "matched", res |-> res, req |-> MovedReq]
\* Mutant: the request is lost and an empty one is handed back.
UnmatchedLosesRequest(r) == [tag |-> "unmatched", res |-> Pending, req |-> Request(<<>>)]

\* `None => Err(req)`
UnmatchedOutcome(r) == [tag |-> "unmatched", res |-> Pending, req |-> r]

NoInv == [reqIn |-> MovedReq, runs |-> 0, calls |-> <<>>]

RouteStart ==
    /\ routes \in UNION {[1..n -> RouteKinds] : n \in 1..NRoutes}
    /\ strong = [i \in DOMAIN routes |-> 1]
    /\ orig \in [Tasks -> Requests]
    /\ chainReq = orig
    /\ idx = [t \in Tasks |-> 1]
    /\ tpc = [t \in Tasks |-> "next"]
    /\ req = [t \in Tasks |-> MovedReq]
    /\ pend = [t \in Tasks |-> NoneV]
    /\ svcPend = [t \in Tasks |-> Pending]
    /\ inv = [t \in Tasks |-> NoInv]
    /\ out = [t \in Tasks |-> Pending]
    /\ hist = [t \in Tasks |-> <<>>]

\* The chain calls the route's callable: the closure clones `this` and builds
\* the future, which takes the request.
CallRouteFn(t) ==
    /\ tpc[t] = "next"
    /\ strong' = [strong EXCEPT ![idx[t]] = StrongAfterClone(@)]
    /\ req' = [req EXCEPT ![ReqSlot(t)] = chainReq[t]]
    /\ chainReq' = [chainReq EXCEPT ![t] = MovedReq]
    /\ inv' = [inv EXCEPT ![t] = [reqIn |-> chainReq[t], runs |-> 0, calls |-> <<>>]]
    /\ tpc' = [tpc EXCEPT ![t] = "future"]
    /\ UNCHANGED <<routes, orig, idx, pend, svcPend, out, hist>>
    /\ UNCHANGED bodyVars

\* First poll: `this.router.run(&mut req)` runs and its future is awaited.
PollRouter(t) ==
    /\ tpc[t] = "future"
    /\ \E rt \in Captured(idx[t]) :
          LET rr == RouterRun(rt.router, req[ReqSlot(t)])
          IN  /\ req' = [req EXCEPT ![ReqSlot(t)] = ReqAfterRun(@, rr)]
              /\ pend' = [pend EXCEPT ![t] = rr.cx]
    /\ inv' = [inv EXCEPT ![t].runs = @ + 1]
    /\ tpc' = [tpc EXCEPT ![t] = "awaitRouter"]
    /\ UNCHANGED <<routes, strong, orig, chainReq, idx, svcPend, out, hist>>
    /\ UNCHANGED bodyVars

\* The router's future resolves to Some(cx): the service is called with the
\* request and a reference to cx, and its future is awaited.
RouterMatched(t) ==
    /\ tpc[t] = "awaitRouter"
    /\ pend[t] # NoneV
    /\ \E rt \in Captured(idx[t]) :
          svcPend' = [svcPend EXCEPT
                        ![t] = ServiceCall(rt.service, req[ReqSlot(t)], pend[t][1])]
    /\ inv' = [inv EXCEPT ![t].calls = Append(@, <<req[ReqSlot(t)], pend[t][1]>>)]
    /\ req' = [req EXCEPT ![ReqSlot(t)] = MovedReq]
    /\ tpc' = [tpc EXCEPT ![t] = "awaitService"]
    /\ UNCHANGED <<routes, strong, orig, chainReq, idx, pend, out, hist>>
    /\ UNCHANGED bodyVars

\* The router's future resolves to None: the callable returns Err(req).
RouterUnmatched(t) ==
    /\ tpc[t] = "awaitRouter"
    /\ pend[t] = NoneV
    /\ LET o == UnmatchedOutcome(req[ReqSlot(t)])
       IN  /\ out' = [out EXCEPT ![t] = o]
           /\ hist' = [hist EXCEPT ![t] = Append(@, [route |-> idx[t],
                         reqIn |-> inv[t].reqIn, runs |-> inv[t].runs,
                         calls |-> inv[t].calls, out |-> o])]
    /\ req' = [req EXCEPT ![ReqSlot(t)] = MovedReq]
    /\ strong' = [strong EXCEPT ![idx[t]] = StrongAfterDrop(@)]
    /\ inv' = [inv EXCEPT ![t] = NoInv]
    /\ tpc' = [tpc EXCEPT ![t] = "returned"]
    /\ UNCHANGED <<routes, orig, chainReq, idx, pend, svcPend>>
    /\ UNCHANGED bodyVars

\* The service's future resolves: the callable returns Ok(result).
ServiceReady(t) ==
    /\ tpc[t] = "awaitService"
    /\ LET o == MatchedOutcome(svcPend[t])
       IN  /\ out' = [out EXCEPT ![t] = o]
           /\ hist' = [hist EXCEPT ![t] = Append(@, [route |-> idx[t],
                         reqIn |-> inv[t].reqIn, runs |-> inv[t].runs,
                         calls |-> inv[t].calls, out |-> o])]
    /\ strong' = [strong EXCEPT ![idx[t]] = StrongAfterDrop(@)]
    /\ pend' = [pend EXCEPT ![t] = NoneV]
    /\ svcPend' = [svcPend EXCEPT ![t] = Pending]
    /\ inv' = [inv EXCEPT ![t] = NoInv]
    /\ tpc' = [tpc EXCEPT ![t] = "returned"]
    /\ UNCHANGED <<routes, orig, chainReq, idx, req>>
    /\ UNCHANGED bodyVars

\* The dispatch chain reads what the callable returned: a match ends the
\* dispatch, an unmatched request goes to the next route, and after the last
\* route control passes to not-found.
ChainAdvance(t) ==
    /\ tpc[t] = "returned"
    /\ IF out[t].tag = "matched"
       THEN /\ tpc' = [tpc EXCEPT ![t] = "responded"]
            /\ UNCHANGED <<idx, chainReq>>
       ELSE /\ chainReq' = [chainReq EXCEPT ![t] = out[t].req]
            /\ IF idx[t] < Len(routes)
               THEN /\ idx' = [idx EXCEPT ![t] = @ + 1]
                    /\ tpc' = [tpc EXCEPT ![t] = "next"]
               ELSE /\ tpc' = [tpc EXCEPT ![t] = "notfound"]
                    /\ UNCHANGED idx
    /\ UNCHANGED <<routes, strong, orig, req, pend, svcPend, inv, out, hist>>
    /\ UNCHANGED bodyVars

\* ------------------------------------------------------------ specifications
BodyIdle ==
    /\ frames = <<>>
    /\ endsWithFault = FALSE
    /\ arrived = <<>>
    /\ buf = <<>>
    /\ max_size = NoneV
    /\ bpc = "idle"
    /\ bytesRes = Pending
    /\ strRes = Pending

RouteIdle ==
    /\ routes = <<>>
    /\ strong = <<>>
    /\ orig = [t \in Tasks |-> MovedReq]
    /\ chainReq = orig
    /\ idx = [t \in Tasks |-> 1]
    /\ tpc = [t \in Tasks |-> "idle"]
    /\ req = [t \in Tasks |-> MovedReq]
    /\ pend = [t \in Tasks |-> NoneV]
    /\ svcPend = [t \in Tasks |-> Pending]
    /\ inv = [t \in Tasks |-> NoInv]
    /\ out = [t \in Tasks |-> Pending]
    /\ hist = [t \in Tasks |-> <<>>]

InitBody == BodyStart /\ RouteIdle
NextBody == PollFrame \/ PollFault \/ PollEnd \/ FromUtf8
SpecBody == InitBody /\ [][NextBody]_vars

InitDispatch == RouteStart /\ BodyIdle
NextDispatch ==
    \E t \in Tasks :
        \/ CallRouteFn(t)
        \/ PollRouter(t)
        \/ RouterMatched(t)
        \/ RouterUnmatched(t)
        \/ ServiceReady(t)
        \/ ChainAdvance(t)
SpecDispatch == InitDispatch /\ [][NextDispatch]_vars

\* ------------------------------------------------------------------ claims
RECURSIVE JoinInOrder(_)
\* The chunks' bytes joined in arrival order.
JoinInOrder(cs) == IF cs = <<>> THEN <<>> ELSE Head(cs) \o JoinInOrder(Tail(cs))

RECURSIVE WellFormed(_)
\* Well-formed UTF-8 over Bytes: a run of 'A' and of the pair 0xC3 0xA9.
WellFormed(bs) ==
    \/ bs = <<>>
    \/ bs[1] = 65 /\ WellFormed(Tail(bs))
    \/ Len(bs) >= 2 /\ bs[1] = 195 /\ bs[2] = 169 /\ WellFormed(Tail(Tail(bs)))

\* collect_bytes has returned on a stream that ended without a transport fault.
CollectedClean == bpc \in {"bytesDone", "strDone"} /\ ~endsWithFault
TotalLen == Len(JoinInOrder(arrived))
WithinBound == max_size = NoneV \/ TotalLen <= max_size[1]

\* C4: with max_size = Some(m), the bytes buffered by collect_bytes never
\* exceed m, in any intermediate state.
C4_BufferedWithinCap == max_size # NoneV => Len(buf) <= max_size[1]

\* C5: a stream that ends without a fault and is longer than max_size makes
\* collect_bytes fail with RequestTooLarge(total length, max_size); no Ok
\* result, partial or full, is returned.
C5_TooLargeFails ==
    (CollectedClean /\ ~WithinBound) =>
        bytesRes = [tag |-> "Err", err |-> "RequestTooLarge",
                    actual |-> TotalLen, limit |-> max_size[1]]
C5_Witness ==
    /\ bpc = "bytesDone" /\ ~endsWithFault
    /\ Len(arrived) = 2 /\ Len(arrived[1]) = 1 /\ Len(arrived[2]) = 1
    /\ max_size = SomeV(1)
    /\ bytesRes.tag = "Err" /\ bytesRes.err = "RequestTooLarge"

\* C6: a stream that ends without a fault, with max_size None or a total
\* length <= max_size (equality included), makes collect_bytes return Ok with
\* exactly the chunks joined in arrival order.
C6_WithinBoundConcat ==
    (CollectedClean /\ WithinBound) =>
        bytesRes = [tag |-> "Ok", val |-> JoinInOrder(arrived)]
C6_Witness ==
    /\ bpc = "bytesDone" /\ ~endsWithFault
    /\ Len(arrived) = 2 /\ arrived[1] # arrived[2]
    /\ arrived[1] # <<>> /\ arrived[2] # <<>>
    /\ max_size = SomeV(TotalLen)
    /\ bytesRes.tag = "Ok"

\* C7: within the size bound and without a fault, bytes that are not valid
\* UTF-8 make collect_str fail with Encoding while collect_bytes on the same
\* stream and max_size succeeds with the raw bytes; valid UTF-8 makes
\* collect_str succeed exactly when collect_bytes does.
C7_EncodingOnlyInStr ==
    (bpc = "strDone" /\ ~endsWithFault) =>
        LET raw == JoinInOrder(arrived)
        IN  /\ (WithinBound /\ ~WellFormed(raw)) =>
                  /\ strRes = [tag |-> "Err", err |-> "Encoding"]
                  /\ bytesRes = [tag |-> "Ok", val |-> raw]
            /\ WellFormed(raw) => (strRes.tag = "Ok" <=> bytesRes.tag = "Ok")
            /\ (WithinBound /\ WellFormed(raw)) => strRes.tag = "Ok"
C7_Witness ==
    /\ bpc = "strDone" /\ ~endsWithFault
    /\ max_size # NoneV /\ WithinBound
    /\ arrived = <<<<65>>, <<195>>>>
    /\ strRes.tag = "Err" /\ strRes.err = "Encoding"
    /\ bytesRes.tag = "Ok"

\* Every request a router of the chain can be handed.
ReqUniverse == Requests \cup {Stripped(r) : r \in Requests}
                        \cup {Stripped(Stripped(r)) : r \in Requests}
NeverMatches(k) == \A r \in ReqUniverse : RouterRun(k, r).cx = NoneV
AlwaysMatchesWith(k, c) == \A r \in ReqUniverse : RouterRun(k, r).cx = SomeV(c)
Contexts == {RouterRun(k, r).cx[1] :
                k \in {"always"}, r \in ReqUniverse}

\* C1 as stated: for a route whose router never matches, the callable yields
\* unmatched carrying the original request unchanged, and the service is
\* never invoked.
C1_UnmatchedOriginalUnchanged ==
    \A t \in Tasks : \A j \in 1..Len(hist[t]) :
        LET h == hist[t][j]
        IN  NeverMatches(routes[h.route].router) =>
                /\ h.out.tag = "unmatched"
                /\ h.out.req = h.reqIn
                /\ h.calls = <<>>

\* C1 amended: for a route whose router never matches, the callable yields
\* unmatched carrying the request as the router's run left it (the original,
\* unchanged, whenever the router does not change it in place), never a
\* matched outcome, and the service is never invoked.
C1_UnmatchedAsRouterLeftIt ==
    \A t \in Tasks :
        /\ \A j \in 1..Len(hist[t]) :
              LET h == hist[t][j]
                  rr == RouterRun(routes[h.route].router, h.reqIn)
              IN  NeverMatches(routes[h.route].router) =>
                      /\ h.out = [tag |-> "unmatched", res |-> Pending, req |-> rr.req]
                      /\ (rr.req = h.reqIn => h.out.req = h.reqIn)
                      /\ h.runs = 1
                      /\ h.calls = <<>>
        /\ (tpc[t] \in {"future", "awaitRouter", "awaitService"}
              /\ NeverMatches(routes[idx[t]].router)) =>
                  tpc[t] # "awaitService" /\ inv[t].calls = <<>>
C1_Witness ==
    \E t \in Tasks : \E j \in 1..Len(hist[t]) :
        /\ routes[hist[t][j].route].router = "never"
        /\ hist[t][j].reqIn.url_path = <<"api", "x">>
        /\ hist[t][j].out.tag = "unmatched"
        /\ hist[t][j].out.req = hist[t][j].reqIn

\* C2: for a route whose router matches every request with context c, each
\* invocation runs the router once, invokes the service exactly once with the
\* same request and exactly c, and returns exactly the service's result as
\* the matched outcome, never handing the request back.
C2_MatchedRunsService ==
    \A t \in Tasks : \A j \in 1..Len(hist[t]) :
        LET h == hist[t][j]
            rt == routes[h.route]
        IN  \A c \in Contexts :
                AlwaysMatchesWith(rt.router, c) =>
                    /\ h.runs = 1
                    /\ h.calls = << <<RouterRun(rt.router, h.reqIn).req, c>> >>
                    /\ h.out.tag = "matched"
                    /\ h.out.res = ServiceCall(rt.service,
                                     RouterRun(rt.router, h.reqIn).req, c)
                    /\ h.out.req = MovedReq
C2_Witness ==
    \E t \in Tasks : \E j \in 1..Len(hist[t]) :
        /\ routes[hist[t][j].route] = [router |-> "always", service |-> "err"]
        /\ hist[t][j].out.tag = "matched"
        /\ hist[t][j].out.res.tag = "Err"
        /\ hist[t][j].calls # <<>>

\* C3: routes are tried one at a time in the configured order; dispatch stops
\* at the first route whose router matches, whether its service succeeds or
\* fails; no later route is invoked; not-found is reached only if every route
\* returned unmatched.
C3_ChainOrderFirstMatch ==
    \A t \in Tasks :
        LET n == Len(hist[t])
            InFlight == tpc[t] \in {"future", "awaitRouter", "awaitService"}
        IN  /\ \A j \in 1..n : hist[t][j].route = j
            /\ InFlight => idx[t] = n + 1
            /\ \A j \in 1..n :
                  (hist[t][j].calls # <<>> \/ hist[t][j].out.tag = "matched") =>
                      /\ j = n
                      /\ tpc[t] \in {"returned", "responded"}
                      /\ hist[t][j].out.tag = "matched"
            /\ \A j \in 1..n :
                  j < n => /\ hist[t][j].out.tag = "unmatched"
                           /\ hist[t][j].calls = <<>>
            /\ tpc[t] = "responded" => n >= 1 /\ hist[t][n].out.tag = "matched"
            /\ tpc[t] = "notfound" =>
                  /\ n = Len(routes)
                  /\ \A j \in 1..n : hist[t][j].out.tag = "unmatched"
C3_Witness ==
    \E t \in Tasks :
        /\ tpc[t] = "responded"
        /\ Len(hist[t]) = 1 /\ Len(routes) = 2
        /\ hist[t][1].out.res.tag = "Err"
        /\ routes[2].router = "always"

\* What an invocation of route rt on request r yields when run alone.
RouteFnAlone(rt, r) ==
    LET rr == RouterRun(rt.router, r)
    IN  IF rr.cx = NoneV
        THEN [runs |-> 1, calls |-> <<>>,
              out |-> [tag |-> "unmatched", res |-> Pending, req |-> rr.req]]
        ELSE [runs |-> 1, calls |-> << <<rr.req, rr.cx[1]>> >>,
              out |-> [tag |-> "matched",
                       res |-> ServiceCall(rt.service, rr.req, rr.cx[1]),
                       req |-> MovedReq]]

\* C8: concurrent invocations of the same callable share no state that
\* changes an outcome: under every interleaving each invocation, in flight or
\* completed, has exactly what it would have had when run alone on its own
\* request, and the captured router and service stay alive and unchanged.
C8_ConcurrentAsAlone ==
    /\ \A i \in DOMAIN routes : strong[i] >= 1
    /\ \A t \in Tasks :
        /\ \A j \in 1..Len(hist[t]) :
              LET h == hist[t][j]
                  a == RouteFnAlone(routes[h.route], h.reqIn)
              IN  h.runs = a.runs /\ h.calls = a.calls /\ h.out = a.out
        /\ tpc[t] = "future" => req[t] = inv[t].reqIn
        /\ tpc[t] = "awaitRouter" =>
              LET rr == RouterRun(routes[idx[t]].router, inv[t].reqIn)
              IN  req[t] = rr.req /\ pend[t] = rr.cx
        /\ tpc[t] = "awaitService" =>
              inv[t].calls = RouteFnAlone(routes[idx[t]], inv[t].reqIn).calls
C8_Witness ==
    /\ orig["t1"] # orig["t2"]
    /\ idx["t1"] = idx["t2"]
    /\ strong[idx["t1"]] = 3
    /\ tpc["t1"] = "awaitRouter" /\ tpc["t2"] = "awaitService"
    /\ routes[idx["t1"]].router = "prefix"

Terminal(t) == tpc[t] \in {"responded", "notfound"}

\* C9: dispatching equivalent fresh copies of one request through one chain
\* selects the same route (or exhausts the chain) and produces the same
\* outcome every time.
C9_DispatchRepeatable ==
    \A t1, t2 \in Tasks :
        (orig[t1] = orig[t2] /\ Terminal(t1) /\ Terminal(t2)) =>
            /\ tpc[t1] = tpc[t2]
            /\ Len(hist[t1]) = Len(hist[t2])
            /\ out[t1] = out[t2]
            /\ hist[t1] = hist[t2]
C9_Witness ==
    /\ orig["t1"] = orig["t2"]
    /\ tpc["t1"] = "responded" /\ tpc["t2"] = "responded"
    /\ Len(hist["t1"]) = 2
    /\ routes[1].router = "strip"

\* C10: a router that changes the request in place and then returns no match
\* gets no rollback: the request handed back as unmatched carries the
\* changes, and the next route of the chain is offered the changed request.
C10_MutationSurvivesNoMatch ==
    \A t \in Tasks : \A j \in 1..Len(hist[t]) :
        LET h == hist[t][j]
            rr == RouterRun(routes[h.route].router, h.reqIn)
        IN  (rr.cx = NoneV /\ rr.req # h.reqIn) =>
                /\ h.out.tag = "unmatched"
                /\ h.out.req = rr.req
                /\ h.out.req # h.reqIn
                /\ (tpc[t] \in {"next", "notfound"} /\ j = Len(hist[t])) =>
                        chainReq[t] = rr.req
                /\ j < Len(hist[t]) => hist[t][j + 1].reqIn = rr.req
C10_Witness ==
    \E t \in Tasks :
        /\ Len(hist[t]) = 2
        /\ routes[1].router = "stripnever"
        /\ hist[t][1].reqIn.url_path = <<"x", "api">>
        /\ hist[t][2].reqIn.url_path = <<"api">>
        /\ hist[t][2].out.tag = "matched"
====
